---------------------------- MODULE Spec2Model ----------------------------
(***************************************************************************)
(* A model of pyexchange's SOAP core, src/base/soap.py: the class          *)
(* ExchangeServiceSOAP (send, _parse, _check_for_SOAP_fault,               *)
(* _send_soap_request, _exchange_header, _wrap_soap_xml_request,           *)
(* _parse_date, _parse_date_only_naive, _xpath_to_dict) and the function   *)
(* user_availability_header.                                               *)
(*                                                                         *)
(* Representation.  A unicode string is a sequence of characters, each a   *)
(* one-character TLA+ string ("eacute" stands for the one character        *)
(* U+00E9).  lxml gives node.text = None for an element without text and   *)
(* never the empty string, so None is the empty sequence.  An element is a *)
(* record [ns, tag, attrib, text, tail, children].  The text of a document *)
(* on the wire is a sequence of markup tokens (start tag, end tag,         *)
(* character data); parsing it is a stack automaton that can fail.         *)
(* Element names, attribute names and attribute values are never taken     *)
(* apart by the code and are kept as whole TLA+ strings.  A Python value   *)
(* in an extraction result is a record [type, v].                          *)
(***************************************************************************)
EXTENDS Integers, Sequences, FiniteSets, TLC

VARIABLES
    op,        \* the operation in progress or last finished: "idle", "parse", "extract", "send"
    input,     \* the arguments of that call
    outcome,   \* what the call gave its caller: [kind |-> "none" | "return" | "raise", ...]
    pc,        \* send's position: the line of send that runs next
    request_xml, \* send's local: the envelope built by _wrap_soap_xml_request
    body,      \* _send_soap_request's local: the serialized envelope
    response,  \* send's local: what connection.send returned
    calls,     \* the calls connection.send received during the current send, in order
    trace      \* the steps of the current send, in order

vars == <<op, input, outcome, pc, request_xml, body, response, calls, trace>>

----------------------------------------------------------------------------
(* Bounds of the model. *)

\* Elements of a generated response document.
MaxNodes == 3
\* Markup tokens a response may lose at its end (a truncated response).
MaxCut == 2
\* Child elements of a generated element handed to _xpath_to_dict.
MaxKids == 2
\* Elements of a document the transport returns to send.
MaxSendNodes == 1

----------------------------------------------------------------------------
(* Characters and strings. *)

None == << >>

Range(s) == { s[i] : i \in 1..Len(s) }

\* The characters of the model with their code points.
CharTable ==
    << <<" ", 32>>, <<"%", 37>>, <<"+", 43>>, <<"-", 45>>,
       <<"0", 48>>, <<"1", 49>>, <<"2", 50>>, <<"3", 51>>, <<"4", 52>>,
       <<"5", 53>>, <<"6", 54>>, <<"7", 55>>, <<"8", 56>>, <<"9", 57>>,
       <<":", 58>>, <<"E", 69>>, <<"H", 72>>, <<"M", 77>>, <<"R", 82>>,
       <<"S", 83>>, <<"T", 84>>, <<"U", 85>>, <<"Y", 89>>, <<"Z", 90>>,
       <<"a", 97>>, <<"d", 100>>, <<"e", 101>>, <<"h", 104>>, <<"m", 109>>,
       <<"n", 110>>, <<"o", 111>>, <<"r", 114>>, <<"s", 115>>, <<"t", 116>>,
       <<"u", 117>>, <<"x", 120>>, <<"y", 121>>, <<"z", 122>>,
       <<"eacute", 233>> >>

Ord(c) == (CHOOSE p \in Range(CharTable) : p[1] = c)[2]

Chr(n) == (CHOOSE p \in Range(CharTable) : p[2] = n)[1]

IsDigit(c) == Ord(c) >= 48 /\ Ord(c) <= 57

IsSpace(c) == Ord(c) = 32

\* unicode.lower(), character by character.
LowerChar(c) == IF Ord(c) >= 65 /\ Ord(c) <= 90 THEN Chr(Ord(c) + 32) ELSE c

Lower(s) == [i \in 1..Len(s) |-> LowerChar(s[i])]

\* The Python slice s[0:n].
Slice0(s, n) == SubSeq(s, 1, IF n < Len(s) THEN n ELSE Len(s))

RECURSIVE DigitsValue(_)
DigitsValue(s) ==
    IF s = << >> THEN 0
    ELSE 10 * DigitsValue(SubSeq(s, 1, Len(s) - 1)) + (Ord(s[Len(s)]) - 48)

AllDigits(s) == \A i \in 1..Len(s) : IsDigit(s[i])

----------------------------------------------------------------------------
(* Namespaces and elements. *)

SOAP_NS == "http://schemas.xmlsoap.org/soap/envelope/"

TYPE_NS == "http://schemas.microsoft.com/exchange/services/2006/types"

SOAP_NAMESPACES == [t |-> TYPE_NS, s |-> SOAP_NS]

\* An element as lxml holds it.
Element(ns, tag, attrib, text, children) ==
    [ns |-> ns, tag |-> tag, attrib |-> attrib, text |-> text, tail |-> None,
     children |-> children]

\* ElementMaker: S.Tag(...) and T.Tag(...).
S(tag, attrib, text, children) == Element(SOAP_NS, tag, attrib, text, children)

T(tag, attrib, text, children) == Element(TYPE_NS, tag, attrib, text, children)

NoAttrib == << >>

RECURSIVE Size(_), SizeAll(_)
Size(e) == 1 + SizeAll(e.children)

SizeAll(es) == IF es = << >> THEN 0 ELSE Size(Head(es)) + SizeAll(Tail(es))

\* The elements of a subtree in document order, the root first.
RECURSIVE Descendants(_), DescendantsAll(_)
Descendants(e) == <<e>> \o DescendantsAll(e.children)

DescendantsAll(es) ==
    IF es = << >> THEN << >> ELSE Descendants(Head(es)) \o DescendantsAll(Tail(es))

----------------------------------------------------------------------------
(* Serialization and parsing (lxml.etree.tostring, lxml.etree.XML). *)

StartTag(e) == [k |-> "start", ns |-> e.ns, tag |-> e.tag, attrib |-> e.attrib, s |-> None]

EndTag(e) == [k |-> "end", ns |-> e.ns, tag |-> e.tag, attrib |-> NoAttrib, s |-> None]

CharData(s) == [k |-> "chars", ns |-> "", tag |-> "", attrib |-> NoAttrib, s |-> s]

CharDataOf(s) == IF s = None THEN << >> ELSE <<CharData(s)>>

\* etree.tostring(element): the markup of an element, its tail included.
RECURSIVE Markup(_), MarkupAll(_)
Markup(e) ==
    <<StartTag(e)>> \o CharDataOf(e.text) \o MarkupAll(e.children)
        \o <<EndTag(e)>> \o CharDataOf(e.tail)

MarkupAll(es) == IF es = << >> THEN << >> ELSE Markup(Head(es)) \o MarkupAll(Tail(es))

\* etree.tostring(xml, encoding=encoding): bytes in the given encoding.  lxml
\* writes a character the encoding lacks as a character reference, so this
\* never fails for an encoding that exists.
tostring(xml, encoding) == [encoding |-> encoding, data |-> Markup(xml)]

Encodable(c, encoding) == encoding = "utf-8" \/ Ord(c) < 128

\* unicode.encode(encoding): the bytes, or UnicodeEncodeError.
encode(text, encoding) ==
    IF \A i \in 1..Len(text) : \A j \in 1..Len(text[i].s) : Encodable(text[i].s[j], encoding)
    THEN [ok |-> TRUE, bytes |-> [encoding |-> encoding, data |-> text]]
    ELSE [ok |-> FALSE, err |-> "UnicodeEncodeError"]

\* The parser's stack automaton.  stack holds the open elements, the innermost
\* last; root is the finished document element, << >> while there is none.
AppendText(e, s) ==
    IF e.children = << >>
    THEN [e EXCEPT !.text = @ \o s]
    ELSE [e EXCEPT !.children[Len(e.children)].tail = @ \o s]

AppendChild(e, c) == [e EXCEPT !.children = Append(@, c)]

ReplaceTop(stack, e) == [stack EXCEPT ![Len(stack)] = e]

Pop(stack) == SubSeq(stack, 1, Len(stack) - 1)

SyntaxError == [ok |-> FALSE, err |-> "XMLSyntaxError"]

RECURSIVE XMLParse(_, _, _)
XMLParse(tokens, stack, root) ==
    IF tokens = << >>
    THEN IF stack = << >> /\ root # << >>
         THEN [ok |-> TRUE, tree |-> root[1]]
         ELSE SyntaxError
    ELSE LET tok  == Head(tokens)
             rest == Tail(tokens)
         IN  IF tok.k = "start"
             THEN IF stack = << >> /\ root # << >>
                  THEN SyntaxError
                  ELSE XMLParse(rest,
                                Append(stack, Element(tok.ns, tok.tag, tok.attrib, None, << >>)),
                                root)
             ELSE IF tok.k = "chars"
             THEN IF stack = << >>
                  THEN SyntaxError
                  ELSE XMLParse(rest, ReplaceTop(stack, AppendText(stack[Len(stack)], tok.s)), root)
             ELSE IF stack = << >>
                     \/ stack[Len(stack)].ns # tok.ns
                     \/ stack[Len(stack)].tag # tok.tag
                  THEN SyntaxError
                  ELSE LET done == stack[Len(stack)]
                           up   == Pop(stack)
                       IN  IF up = << >>
                           THEN XMLParse(rest, up, <<done>>)
                           ELSE XMLParse(rest, ReplaceTop(up, AppendChild(up[Len(up)], done)), root)

\* etree.XML(bytes): the document element, or XMLSyntaxError.
XML(bytes) == XMLParse(bytes.data, << >>, << >>)

----------------------------------------------------------------------------
(* XPath, as far as the code uses it. *)

\* One name test prefix:name against an element, the prefix resolved by the
\* namespace map.
NameTest(e, step, namespaces) == e.ns = namespaces[step[1]] /\ e.tag = step[2]

\* xpath(u'//prefix:name'): every element of the document with that name, in
\* document order.
XPathAnywhere(xml_tree, step, namespaces) ==
    SelectSeq(Descendants(xml_tree), LAMBDA e : NameTest(e, step, namespaces))

\* xpath(u'p:a/p:b/...') relative to an element: the child axis, step by step,
\* in document order.
RECURSIVE Flatten(_)
Flatten(ss) == IF ss = << >> THEN << >> ELSE Head(ss) \o Flatten(Tail(ss))

RECURSIVE XPathChildren(_, _, _)
XPathChildren(contexts, path, namespaces) ==
    IF path = << >> THEN contexts
    ELSE XPathChildren(
             Flatten([i \in 1..Len(contexts) |->
                 SelectSeq(contexts[i].children,
                           LAMBDA e : NameTest(e, Head(path), namespaces))]),
             Tail(path), namespaces)

xpath(element, path, namespaces) == XPathChildren(<<element>>, path, namespaces)

----------------------------------------------------------------------------
(* What a call gives its caller. *)

Return(value) == [kind |-> "return", value |-> value]

Raise(type, args) == [kind |-> "raise", exc |-> [type |-> type, args |-> args]]

NoOutcome == [kind |-> "none"]

\* u"...%s" % err
Format(fmt, arg) == [fmt |-> fmt, arg |-> arg]

----------------------------------------------------------------------------
(* ExchangeServiceSOAP._parse and _check_for_SOAP_fault. *)

\* fault = fault_nodes[0]; fault.text
FaultText(fault_nodes) == fault_nodes[1].text

\* A mutated search: Fault elements directly under the document element only.
FaultNodesTopLevel(xml_tree) ==
    SelectSeq(xml_tree.children, LAMBDA e : NameTest(e, <<"s", "Fault">>, SOAP_NAMESPACES))

\* xml_tree.xpath(u'//s:Fault', namespaces=SOAP_NAMESPACES)
FaultNodes(xml_tree) == XPathAnywhere(xml_tree, <<"s", "Fault">>, SOAP_NAMESPACES)

\* Raises when a Fault is anywhere in the response, else returns nothing.
_check_for_SOAP_fault(xml_tree) ==
    LET fault_nodes == FaultNodes(xml_tree)
    IN  IF fault_nodes # << >>
        THEN Raise("FailedExchangeException",
                   <<"SOAP Fault from Exchange server", FaultText(fault_nodes)>>)
        ELSE Return(None)

_check_for_errors(xml_tree) == _check_for_SOAP_fault(xml_tree)

\* A mutated handler that lets the parser's own error through.
CaughtTypeErrorOnly(err) == err \in {"TypeError"}

\* except (etree.XMLSyntaxError, TypeError).  Nothing in the model raises
\* TypeError here: the response is always a string.
Caught(err) == err \in {"XMLSyntaxError", "TypeError"}

UnableToParse(err) ==
    Raise("FailedExchangeException",
          <<Format("Unable to parse response from Exchange - check your login information. Error: %s", err)>>)

_parse(resp, encoding) ==
    LET encoded == encode(resp, encoding)
        parsed  == IF encoded.ok THEN XML(encoded.bytes) ELSE encoded
    IN  IF ~parsed.ok
        THEN IF Caught(parsed.err) THEN UnableToParse(parsed.err)
             ELSE Raise(parsed.err, <<>>)
        ELSE LET checked == _check_for_errors(parsed.tree)
             IN  IF checked.kind = "raise" THEN checked ELSE Return(parsed.tree)

----------------------------------------------------------------------------
(* The envelope: _exchange_header, user_availability_header and            *)
(* _wrap_soap_xml_request.                                                 *)

\* T.RequestServerVersion({u'Version': u'Exchange2010'})
RequestServerVersion ==
    T("RequestServerVersion", [Version |-> "Exchange2010"], None, << >>)

Bias8H == <<"P", "0", "D", "T", "8", "H", "0", "M", "0", ".", "0", "S">>

Bias7H == <<"P", "0", "D", "T", "7", "H", "0", "M", "0", ".", "0", "S">>

Offset2H == <<"P", "0", "D", "T", "2", "H", "0", "M", "0", ".", "0", "S">>

Sunday == <<"S", "u", "n", "d", "a", "y">>

\* T.Period({u'Bias': ..., u'Name': ..., u'Id': ...})
Period(bias, name, id) ==
    T("Period", [Bias |-> bias, Name |-> name, Id |-> id], None, << >>)

\* T.To({u'Kind': kind}, target)
To(kind, target) == T("To", [Kind |-> kind], target, << >>)

\* T.RecurringDayTransition(T.To(...), T.TimeOffset(...), T.Month(...),
\* T.DayOfWeek(...), T.Occurrence(...))
RecurringDayTransition(target, offset, month, day, occurrence) ==
    T("RecurringDayTransition", NoAttrib, None,
      << To("Period", target),
         T("TimeOffset", NoAttrib, offset, << >>),
         T("Month", NoAttrib, month, << >>),
         T("DayOfWeek", NoAttrib, day, << >>),
         T("Occurrence", NoAttrib, occurrence, << >>) >>)

\* The header the function builds (lines 200-249), which is not the one its
\* docstring shows: two periods, one transitions group, and two transitions
\* that both lead to group 0.
user_availability_header ==
    S("Header", NoAttrib, None,
      << RequestServerVersion,
         T("TimeZoneContext", NoAttrib, None,
           << T("TimeZoneDefinition",
                [Name |-> "(UTC-08:00) Pacific Time (US &amp; Canada)",
                 Id |-> "Pacific Standard Time"],
                None,
                << T("Periods", NoAttrib, None,
                     << Period(Bias8H, "Standard", "Std"),
                        Period(Bias7H, "Daylight", "Dlt/1") >>),
                   T("TransitionsGroups", NoAttrib, None,
                     << T("TransitionsGroup", [Id |-> "0"], None,
                          << RecurringDayTransition(<<"D", "l", "t", "/", "1">>, Offset2H,
                                                    <<"3">>, Sunday, <<"1">>),
                             RecurringDayTransition(<<"S", "t", "d">>, Offset2H,
                                                    <<"1", "1">>, Sunday, <<"1">>) >>) >>),
                   T("Transitions", NoAttrib, None,
                     << T("Transition", NoAttrib, None, <<To("Group", <<"0">>)>>),
                        T("AbsoluteDateTransition", NoAttrib, None,
                          << To("Group", <<"0">>),
                             T("DateTime", NoAttrib,
                               <<"2", "0", "1", "5", "-", "0", "3", "-", "0", "1", "T",
                                 "0", "8", ":", "0", "0", ":", "0", "0", ".", "0", "0", "0", "Z">>,
                               << >>) >>) >>) >>) >>) >>)

\* A mutated _exchange_header that sends the time zone context with every
\* request.
_exchange_header_always(user_availability_req) == user_availability_header

_exchange_header(user_availability_req) ==
    IF user_availability_req
    THEN user_availability_header
    ELSE S("Header", NoAttrib, None, <<RequestServerVersion>>)

_wrap_soap_xml_request(exchange_xml, user_availability_req) ==
    S("Envelope", NoAttrib, None,
      << _exchange_header(user_availability_req),
         S("Body", NoAttrib, None, <<exchange_xml>>) >>)

----------------------------------------------------------------------------
(* datetime.strptime, int() and the two date parsers. *)

\* u"%Y-%m-%dT%H:%M:%SZ"
EXCHANGE_DATE_FORMAT ==
    <<"%", "Y", "-", "%", "m", "-", "%", "d", "T",
      "%", "H", ":", "%", "M", ":", "%", "S", "Z">>

\* The widths a directive's pattern accepts and the values it accepts:
\* %Y (\d\d\d\d), %m (1[0-2]|0[1-9]|[1-9]), %d (3[01]|[12]\d|0[1-9]|[1-9]),
\* %H (2[0-3]|[0-1]\d|\d), %M ([0-5]\d|\d), %S (6[0-1]|[0-5]\d|\d).
\* (%d also accepts a blank before a single digit; no text of the model has
\* one there.)
DirectiveWidths(d) == IF d = "Y" THEN {4} ELSE {1, 2}

DirectiveAccepts(d, v) ==
    CASE d = "Y" -> TRUE
      [] d = "m" -> v >= 1 /\ v <= 12
      [] d = "d" -> v >= 1 /\ v <= 31
      [] d = "H" -> v >= 0 /\ v <= 23
      [] d = "M" -> v >= 0 /\ v <= 59
      [] d = "S" -> v >= 0 /\ v <= 61
      [] OTHER   -> FALSE

\* Every way the whole of data matches the format: each a sequence of
\* <<directive, value>>.  The pattern is compiled with IGNORECASE, so the
\* format's literal characters match in either case.
RECURSIVE StrpMatch(_, _)
StrpMatch(data, fmt) ==
    IF fmt = << >>
    THEN IF data = << >> THEN {<< >>} ELSE {}
    ELSE IF fmt[1] = "%"
    THEN IF Len(fmt) < 2 THEN {}
         ELSE UNION {
                { <<<<fmt[2], DigitsValue(SubSeq(data, 1, w))>>>> \o m :
                    m \in StrpMatch(SubSeq(data, w + 1, Len(data)),
                                    SubSeq(fmt, 3, Len(fmt))) } :
                w \in { x \in DirectiveWidths(fmt[2]) :
                          /\ x <= Len(data)
                          /\ AllDigits(SubSeq(data, 1, x))
                          /\ DirectiveAccepts(fmt[2], DigitsValue(SubSeq(data, 1, x))) } }
    ELSE IF data # << >> /\ LowerChar(data[1]) = LowerChar(fmt[1])
         THEN StrpMatch(Tail(data), Tail(fmt))
         ELSE {}

Field(m, d, default) ==
    IF \E i \in 1..Len(m) : m[i][1] = d
    THEN m[CHOOSE i \in 1..Len(m) : m[i][1] = d][2]
    ELSE default

IsLeap(y) == y % 4 = 0 /\ (y % 100 # 0 \/ y % 400 = 0)

DaysInMonth(y, m) ==
    IF m = 2 THEN (IF IsLeap(y) THEN 29 ELSE 28)
    ELSE IF m \in {4, 6, 9, 11} THEN 30 ELSE 31

\* datetime.strptime(date_string, format): a naive datetime, or ValueError
\* (no match, unconverted data, or fields the datetime type refuses), or
\* TypeError when date_string is not a string.
strptime(date_string, format) ==
    IF date_string = None
    THEN Raise("TypeError", <<"strptime() argument 1 must be str", date_string>>)
    ELSE LET ms == StrpMatch(date_string, format)
         IN  IF ms = {}
             THEN Raise("ValueError", <<"time data does not match format", date_string>>)
             ELSE LET m == CHOOSE x \in ms : TRUE
                      y == Field(m, "Y", 1900)
                      mo == Field(m, "m", 1)
                      d == Field(m, "d", 1)
                      sec == Field(m, "S", 0)
                  IN  IF y < 1 \/ d > DaysInMonth(y, mo) \/ sec > 59
                      THEN Raise("ValueError", <<"field out of range", date_string>>)
                      ELSE Return([year |-> y, month |-> mo, day |-> d,
                                   hour |-> Field(m, "H", 0), minute |-> Field(m, "M", 0),
                                   second |-> sec, tzinfo |-> "None"])

_parse_date(date_string) ==
    LET date == strptime(date_string, EXCHANGE_DATE_FORMAT)
    IN  IF date.kind = "raise" THEN date
        ELSE Return([type |-> "datetime", v |-> [date.value EXCEPT !.tzinfo = "UTC"]])

_parse_date_only_naive(date_string) ==
    IF date_string = None
    THEN Raise("TypeError", <<"'NoneType' object is not subscriptable", date_string>>)
    ELSE LET date == strptime(Slice0(date_string, 10), Slice0(EXCHANGE_DATE_FORMAT, 8))
         IN  IF date.kind = "raise" THEN date
             ELSE Return([type |-> "date",
                          v |-> [year |-> date.value.year, month |-> date.value.month,
                                 day |-> date.value.day]])

\* unicode.strip() of blanks at both ends.
RECURSIVE LStrip(_), RStrip(_)
LStrip(s) == IF s # << >> /\ IsSpace(s[1]) THEN LStrip(Tail(s)) ELSE s

RStrip(s) == IF s # << >> /\ IsSpace(s[Len(s)]) THEN RStrip(SubSeq(s, 1, Len(s) - 1)) ELSE s

\* int(text): blanks around, an optional sign, decimal digits.  (Python also
\* accepts underscores between digits and non-ASCII digits; the alphabet of
\* the model has neither.)
int(text) ==
    IF text = None
    THEN Raise("TypeError", <<"int() argument must be a string or a number", text>>)
    ELSE LET t == RStrip(LStrip(text))
             signed == t # << >> /\ t[1] \in {"+", "-"}
             digits == IF signed THEN Tail(t) ELSE t
         IN  IF digits # << >> /\ AllDigits(digits)
             THEN Return([type |-> "int",
                          v |-> IF signed /\ t[1] = "-" THEN 0 - DigitsValue(digits)
                                ELSE DigitsValue(digits)])
             ELSE Raise("ValueError", <<"invalid literal for int() with base 10", text>>)

----------------------------------------------------------------------------
(* ExchangeServiceSOAP._xpath_to_dict. *)

\* item.get(u'cast', None)
GetCast(item) == IF "cast" \in DOMAIN item THEN item.cast ELSE "None"

Unicode(text) == [type |-> IF text = None THEN "NoneType" ELSE "unicode", v |-> text]

Bool(b) == [type |-> "bool", v |-> b]

\* The value one matched node adds to result_for_node, or the exception its
\* conversion raises.
CastNode(text, cast_as) ==
    IF cast_as = "datetime" THEN _parse_date(text)
    ELSE IF cast_as = "date_only_naive" THEN _parse_date_only_naive(text)
    ELSE IF cast_as = "int" THEN int(text)
    ELSE IF cast_as = "bool"
    THEN IF text = None
         THEN Raise("AttributeError", <<"'NoneType' object has no attribute 'lower'", text>>)
         ELSE IF Lower(text) = <<"t", "r", "u", "e">> THEN Return(Bool(TRUE))
              ELSE Return(Bool(FALSE))
    ELSE Return(Unicode(text))

\* The loop over the matched nodes: result_for_node, or the first exception.
RECURSIVE CastNodes(_, _, _)
CastNodes(nodes, cast_as, result_for_node) ==
    IF nodes = << >> THEN Return(result_for_node)
    ELSE LET one == CastNode(Head(nodes).text, cast_as)
         IN  IF one.kind = "raise" THEN one
             ELSE CastNodes(Tail(nodes), cast_as, Append(result_for_node, one.value))

\* A mutated collapse that keeps a single value in its list.
CollapseKeepList(result_for_node) == [type |-> "list", v |-> result_for_node]

\* What result[key] is set to, given result_for_node.
Collapse(result_for_node) ==
    IF result_for_node = << >> THEN [type |-> "NoneType", v |-> None]
    ELSE IF Len(result_for_node) = 1 THEN result_for_node[1]
    ELSE [type |-> "list", v |-> result_for_node]

\* A mutated loop that stores None under a key whose path matched nothing.
RECURSIVE XpathLoopNullKeys(_, _, _, _, _)
XpathLoopNullKeys(keys, result, element, property_map, namespace_map) ==
    IF keys = << >> THEN Return(result)
    ELSE LET key   == Head(keys)
             item  == property_map[key]
             nodes == xpath(element, item.xpath, namespace_map)
             cast  == CastNodes(nodes, GetCast(item), << >>)
         IN  IF cast.kind = "raise" THEN cast
             ELSE XpathLoopNullKeys(Tail(keys), (key :> Collapse(cast.value)) @@ result,
                                    element, property_map, namespace_map)

\* A mutated loop that gives up on the first failed conversion and returns
\* what it has.
RECURSIVE XpathLoopPartial(_, _, _, _, _)
XpathLoopPartial(keys, result, element, property_map, namespace_map) ==
    IF keys = << >> THEN Return(result)
    ELSE LET key   == Head(keys)
             item  == property_map[key]
             nodes == xpath(element, item.xpath, namespace_map)
             cast  == CastNodes(nodes, GetCast(item), << >>)
         IN  IF nodes = << >>
             THEN XpathLoopPartial(Tail(keys), result, element, property_map, namespace_map)
             ELSE IF cast.kind = "raise" THEN Return(result)
             ELSE XpathLoopPartial(Tail(keys), (key :> Collapse(cast.value)) @@ result,
                                   element, property_map, namespace_map)

\* for key in property_map: ..., the keys in the order the dictionary yields
\* them; the result so far is dropped when a conversion raises.
RECURSIVE XpathLoop(_, _, _, _, _)
XpathLoop(keys, result, element, property_map, namespace_map) ==
    IF keys = << >> THEN Return(result)
    ELSE LET key   == Head(keys)
             item  == property_map[key]
             nodes == xpath(element, item.xpath, namespace_map)
             cast  == CastNodes(nodes, GetCast(item), << >>)
         IN  IF nodes = << >>
             THEN XpathLoop(Tail(keys), result, element, property_map, namespace_map)
             ELSE IF cast.kind = "raise" THEN cast
             ELSE XpathLoop(Tail(keys), (key :> Collapse(cast.value)) @@ result,
                            element, property_map, namespace_map)

\* keys: the iteration order of property_map, which Python leaves to the
\* dictionary.
_xpath_to_dict(element, property_map, namespace_map, keys) ==
    XpathLoop(keys, << >>, element, property_map, namespace_map)

----------------------------------------------------------------------------
(* The inputs the model draws. *)

Encodings == {"utf-8", "ascii"}

\* Names and texts of the elements of a generated response.
ResponseNames == {<<SOAP_NS, "Fault">>, <<TYPE_NS, "Fault">>, <<SOAP_NS, "Body">>}

ResponseTexts == {None, <<"a">>, <<"eacute">>}

\* Every element of at most n elements, and every sequence of elements of at
\* most n elements in all, over the given names and texts.
RECURSIVE Trees(_, _, _), Forests(_, _, _)
Trees(n, names, texts) ==
    IF n = 0 THEN {}
    ELSE { Element(nm[1], nm[2], NoAttrib, tx, kids) :
               nm \in names, tx \in texts, kids \in Forests(n - 1, names, texts) }

Forests(n, names, texts) ==
    {<< >>} \cup
    UNION { { <<t>> \o f : f \in Forests(n - Size(t), names, texts) } :
                t \in Trees(n, names, texts) }

Documents == Trees(MaxNodes, ResponseNames, ResponseTexts)

\* A response as the transport returns it: the text of a document, whole or
\* cut short by up to MaxCut markup tokens.
Truncated(text, cut) == SubSeq(text, 1, Len(text) - cut)

\* Names and texts of the children of an element handed to _xpath_to_dict.
ExtractNames == {<<TYPE_NS, "Mailbox">>, <<TYPE_NS, "Name">>}

TextTrue == <<"T", "r", "u", "e">>

TextNo == <<"n", "o">>

Text12 == <<"1", "2">>

TextStamp ==
    <<"2", "0", "1", "3", "-", "0", "5", "-", "0", "1", "T",
      "0", "7", ":", "0", "8", ":", "0", "9", "Z">>

ExtractTexts == {None, TextTrue, TextNo, Text12, TextStamp}

Elements ==
    { T("Attendee", NoAttrib, None, kids) :
          kids \in Forests(MaxKids, ExtractNames, ExtractTexts) }

Casts == {"datetime", "date_only_naive", "int", "bool"}

\* A property map item with a cast, and one without.
Items(path, casts) ==
    {[xpath |-> path]} \cup {[xpath |-> path, cast |-> c] : c \in casts}

\* { u'name': {u'xpath': u't:Mailbox/t:Name' or u't:Mailbox', ...},
\*   u'response': {u'xpath': u't:Name', ...} }
PropertyMaps ==
    { ("name" :> i1) @@ ("response" :> i2) :
          i1 \in Items(<<<<"t", "Mailbox">>, <<"t", "Name">>>>, {"int"})
                    \cup Items(<<<<"t", "Mailbox">>>>, {"int"}),
          i2 \in Items(<<<<"t", "Name">>>>, Casts) }

KeyOrders == {<<"name", "response">>, <<"response", "name">>}

----------------------------------------------------------------------------
(* The state machine: a caller that makes one call at a time. *)

Init ==
    /\ op = "idle"
    /\ input = << >>
    /\ outcome = NoOutcome
    /\ pc = "idle"
    /\ request_xml = << >>
    /\ body = << >>
    /\ response = << >>
    /\ calls = << >>
    /\ trace = << >>

sendVars == <<pc, request_xml, body, response, calls, trace>>

\* A call of _parse(response, encoding).
ParseCall ==
    /\ op = "idle"
    /\ \E document \in Documents, cut \in 0..MaxCut, encoding \in Encodings :
          LET resp == Truncated(Markup(document), cut)
          IN  /\ cut <= Len(Markup(document))
              /\ input' = [response |-> resp, encoding |-> encoding,
                           document |-> document, cut |-> cut]
              /\ outcome' = _parse(resp, encoding)
    /\ op' = "parse"
    /\ UNCHANGED sendVars

\* A call of _xpath_to_dict(element, property_map, namespace_map).
ExtractCall ==
    /\ op = "idle"
    /\ \E element \in Elements, property_map \in PropertyMaps, keys \in KeyOrders :
          /\ input' = [element |-> element, property_map |-> property_map,
                       namespace_map |-> SOAP_NAMESPACES, keys |-> keys]
          /\ outcome' = _xpath_to_dict(element, property_map, SOAP_NAMESPACES, keys)
    /\ op' = "extract"
    /\ UNCHANGED sendVars

\* send's keyword defaults (line 33).  _send_soap_request has defaults of its
\* own (line 64, retries=2), which send overrides on every call.
DefaultRetries == 4

DefaultTimeout == 30

\* A keyword argument the caller gave, << v >>, or left out, << >>.
Arg(given, default) == IF given = << >> THEN default ELSE given[1]

\* Lines 36 and 66: what self.connection.send(body, headers, retries, timeout)
\* receives, send's own arguments handed on by _send_soap_request.
ConnectionSend(body_, headers, retries, timeout) ==
    [body |-> body_, headers |-> headers, retries |-> retries, timeout |-> timeout]

\* The body fragments, headers and numbers a caller passes to send.
Fragments ==
    { T("GetItem", NoAttrib, None, << >>),
      T("FindItem", [Traversal |-> "Shallow"], None,
        <<T("ItemShape", NoAttrib, <<"a">>, << >>)>>) }

GivenHeaders == {<< >>, <<None>>, <<[Cookie |-> "k"]>>}

GivenRetries == {<< >>, <<0>>, <<7>>}

GivenTimeouts == {<< >>, <<5>>}

GivenEncodings == {<< >>, <<"ascii">>}

GivenFlags == {<< >>, <<TRUE>>}

SendDocuments == Trees(MaxSendNodes, ResponseNames, ResponseTexts)

\* send(xml, headers=None, retries=4, timeout=30, encoding="utf-8",
\* user_availability_req=False) is called: the arguments are bound.
SendCall ==
    /\ op = "idle"
    /\ \E xml \in Fragments, headers \in GivenHeaders, retries \in GivenRetries,
          timeout \in GivenTimeouts, encoding \in GivenEncodings, flag \in GivenFlags :
          input' = [xml |-> xml,
                    headers |-> Arg(headers, None),
                    retries |-> Arg(retries, DefaultRetries),
                    timeout |-> Arg(timeout, DefaultTimeout),
                    encoding |-> Arg(encoding, "utf-8"),
                    user_availability_req |-> Arg(flag, FALSE),
                    given |-> [headers |-> headers, retries |-> retries, timeout |-> timeout,
                               encoding |-> encoding, user_availability_req |-> flag]]
    /\ op' = "send"
    /\ pc' = "wrap"
    /\ UNCHANGED <<outcome, request_xml, body, response, calls, trace>>

\* Line 34: request_xml = self._wrap_soap_xml_request(xml, user_availability_req)
Wrap ==
    /\ op = "send" /\ pc = "wrap"
    /\ request_xml' = _wrap_soap_xml_request(input.xml, input.user_availability_req)
    /\ pc' = "log"
    /\ trace' = Append(trace, "wrap")
    /\ UNCHANGED <<op, input, outcome, body, response, calls>>

\* Line 35: log.info(etree.tostring(request_xml, ...)); nothing is kept.
LogRequest ==
    /\ op = "send" /\ pc = "log"
    /\ pc' = "serialize"
    /\ trace' = Append(trace, "log")
    /\ UNCHANGED <<op, input, outcome, request_xml, body, response, calls>>

\* Lines 36 and 65: _send_soap_request is entered; body = etree.tostring(xml, encoding=encoding)
Serialize ==
    /\ op = "send" /\ pc = "serialize"
    /\ body' = tostring(request_xml, input.encoding)
    /\ pc' = "transport"
    /\ trace' = Append(trace, "serialize")
    /\ UNCHANGED <<op, input, outcome, request_xml, response, calls>>

\* Line 66: self.connection.send(body, headers, retries, timeout) returns the
\* text of a document, whole or cut short.
TransportReturns ==
    /\ op = "send" /\ pc = "transport"
    /\ \E document \in SendDocuments, cut \in 0..MaxCut :
          /\ cut <= Len(Markup(document))
          /\ response' = Truncated(Markup(document), cut)
          /\ calls' = Append(calls,
                 [args |-> ConnectionSend(body, input.headers, input.retries, input.timeout),
                  document |-> document, cut |-> cut])
    /\ pc' = "parse"
    /\ trace' = Append(trace, "transport")
    /\ UNCHANGED <<op, input, outcome, request_xml, body>>

\* Line 66: self.connection.send raises; send has no handler, so its caller
\* gets the exception.
TransportRaises ==
    /\ op = "send" /\ pc = "transport"
    /\ calls' = Append(calls,
           [args |-> ConnectionSend(body, input.headers, input.retries, input.timeout),
            document |-> << >>, cut |-> 0])
    /\ outcome' = Raise("FailedExchangeException", <<"Unable to connect to Exchange">>)
    /\ pc' = "done"
    /\ trace' = Append(trace, "transport")
    /\ UNCHANGED <<op, input, request_xml, body, response>>

\* A mutated last step that asks the transport again when parsing fails.
ParseResponseRetrying ==
    /\ op = "send" /\ pc = "parse"
    /\ LET result == _parse(response, input.encoding)
       IN  IF result.kind = "raise"
           THEN pc' = "transport" /\ outcome' = outcome
           ELSE pc' = "done" /\ outcome' = result
    /\ trace' = Append(trace, "parse")
    /\ UNCHANGED <<op, input, request_xml, body, response, calls>>

\* Line 37: return self._parse(response, encoding=encoding)
ParseResponse ==
    /\ op = "send" /\ pc = "parse"
    /\ outcome' = _parse(response, input.encoding)
    /\ pc' = "done"
    /\ trace' = Append(trace, "parse")
    /\ UNCHANGED <<op, input, request_xml, body, response, calls>>

\* The caller has its answer and is free to call again.
Finish ==
    /\ op # "idle"
    /\ op = "send" => pc = "done"
    /\ op' = "idle"
    /\ input' = << >>
    /\ outcome' = NoOutcome
    /\ pc' = "idle"
    /\ request_xml' = << >>
    /\ body' = << >>
    /\ response' = << >>
    /\ calls' = << >>
    /\ trace' = << >>

NextParse == ParseCall \/ Finish

SpecParse == Init /\ [][NextParse]_vars

NextExtract == ExtractCall \/ Finish

SpecExtract == Init /\ [][NextExtract]_vars

NextSend ==
    \/ SendCall
    \/ Wrap
    \/ LogRequest
    \/ Serialize
    \/ TransportReturns
    \/ TransportRaises
    \/ ParseResponse
    \/ Finish

SpecSend == Init /\ [][NextSend]_vars

Next ==
    \/ ParseCall
    \/ ExtractCall
    \/ SendCall
    \/ Wrap
    \/ LogRequest
    \/ Serialize
    \/ TransportReturns
    \/ TransportRaises
    \/ ParseResponse
    \/ Finish

Spec == Init /\ [][Next]_vars

----------------------------------------------------------------------------
(* Properties of _parse. *)

\* The texts of the SOAP-namespace Fault elements of a document, in document
\* order, found by a depth-first walk.
RECURSIVE SoapFaultTexts(_), SoapFaultTextsAll(_)
SoapFaultTexts(e) ==
    (IF e.ns = SOAP_NS /\ e.tag = "Fault" THEN <<e.text>> ELSE << >>)
        \o SoapFaultTextsAll(e.children)

SoapFaultTextsAll(es) ==
    IF es = << >> THEN << >>
    ELSE SoapFaultTexts(Head(es)) \o SoapFaultTextsAll(Tail(es))

\* The characters of a response text.
ResponseChars(text) == UNION { Range(text[i].s) : i \in 1..Len(text) }

\* The response text can be encoded with the call's encoding.
CanEncode(text, encoding) == encoding # "ascii" \/ "eacute" \notin ResponseChars(text)

\* The call parsed the whole text of a document that its encoding can encode.
ParsedWellFormed ==
    op = "parse" /\ input.cut = 0 /\ CanEncode(input.response, input.encoding)

IsFaultError(o, text) ==
    /\ o.kind = "raise"
    /\ o.exc.type = "FailedExchangeException"
    /\ Len(o.exc.args) = 2
    /\ o.exc.args[1] = "SOAP Fault from Exchange server"
    /\ o.exc.args[2] = text

IsMalformedError(o) ==
    /\ o.kind = "raise"
    /\ o.exc.type = "FailedExchangeException"
    /\ Len(o.exc.args) = 1
    /\ o.exc.args[1].fmt =
           "Unable to parse response from Exchange - check your login information. Error: %s"

\* C1: a well-formed response with a SOAP-namespace Fault element at any depth
\* makes _parse raise the fault error, whose payload is the text of the first
\* such element in document order; a document is returned only when it holds
\* no such element, and then it is the document the text describes.
C1_FaultRaises ==
    /\ ParsedWellFormed =>
          LET faults == SoapFaultTexts(input.document)
          IN  IF faults # << >>
              THEN IsFaultError(outcome, faults[1])
              ELSE outcome.kind = "return" /\ outcome.value = input.document
    /\ op = "parse" /\ outcome.kind = "return" => SoapFaultTexts(outcome.value) = << >>

\* C1 witness: a fault error for a document with two SOAP Fault elements of
\* different texts, the first one nested below the document element.
C1_Witness ==
    /\ ParsedWellFormed
    /\ Len(SoapFaultTexts(input.document)) = 2
    /\ SoapFaultTexts(input.document)[1] # SoapFaultTexts(input.document)[2]
    /\ ~(input.document.ns = SOAP_NS /\ input.document.tag = "Fault")
    /\ IsFaultError(outcome, SoapFaultTexts(input.document)[1])

\* C2: a response text that cannot be encoded with the call's encoding, or that
\* is not well-formed (here: cut short), makes _parse fail with the
\* malformed-response error and with no other exception.
C2_MalformedTranslated ==
    op = "parse" /\ (input.cut > 0 \/ ~CanEncode(input.response, input.encoding))
        => IsMalformedError(outcome)

\* The part of C2 the code keeps: a truncated text that can be encoded fails
\* with the malformed-response error.
C2_TruncatedTranslated ==
    op = "parse" /\ input.cut > 0 /\ CanEncode(input.response, input.encoding)
        => IsMalformedError(outcome)

----------------------------------------------------------------------------
(* Properties of _xpath_to_dict. *)

HasName(e, step) == e.ns = TYPE_NS /\ e.tag = step[2]

\* The texts of the nodes a one- or two-step path matches below an element,
\* in document order: children for one step, grandchildren for two.
RECURSIVE GrandchildTexts(_, _)
GrandchildTexts(kids, path) ==
    IF kids = << >> THEN << >>
    ELSE (IF HasName(Head(kids), path[1])
          THEN [j \in 1..Len(SelectSeq(Head(kids).children, LAMBDA g : HasName(g, path[2]))) |->
                   SelectSeq(Head(kids).children, LAMBDA g : HasName(g, path[2]))[j].text]
          ELSE << >>)
         \o GrandchildTexts(Tail(kids), path)

MatchedTexts(e, path) ==
    IF Len(path) = 1
    THEN [j \in 1..Len(SelectSeq(e.children, LAMBDA c : HasName(c, path[1]))) |->
             SelectSeq(e.children, LAMBDA c : HasName(c, path[1]))[j].text]
    ELSE GrandchildTexts(e.children, path)

\* The texts the call's property map matches under key.
TextsOf(key) == MatchedTexts(input.element, input.property_map[key].xpath)

CastOf(key) ==
    IF "cast" \in DOMAIN input.property_map[key] THEN input.property_map[key].cast
    ELSE "None"

Keys == {"name", "response"}

Extracted == op = "extract" /\ outcome.kind = "return"

\* What each sample text is worth under each cast, written out by hand;
\* "fails" where the conversion has no value.
Stamp ==
    [year |-> 2013, month |-> 5, day |-> 1, hour |-> 7, minute |-> 8, second |-> 9,
     tzinfo |-> "UTC"]

Expected(text, cast) ==
    CASE cast = "None" ->
            IF text = None THEN [type |-> "NoneType", v |-> None]
            ELSE [type |-> "unicode", v |-> text]
      [] cast = "bool" ->
            IF text = None THEN [type |-> "fails"]
            ELSE [type |-> "bool", v |-> (text = TextTrue)]
      [] cast = "int" ->
            IF text = Text12 THEN [type |-> "int", v |-> 12] ELSE [type |-> "fails"]
      [] cast = "datetime" ->
            IF text = TextStamp THEN [type |-> "datetime", v |-> Stamp]
            ELSE [type |-> "fails"]
      [] cast = "date_only_naive" ->
            IF text = TextStamp
            THEN [type |-> "date", v |-> [year |-> 2013, month |-> 5, day |-> 1]]
            ELSE [type |-> "fails"]

SameValue(a, b) == a.type = b.type /\ a.v = b.v

\* Some node matched under key has no value under the key's cast.
KeyFails(key) ==
    \E i \in 1..Len(TextsOf(key)) : Expected(TextsOf(key)[i], CastOf(key)).type = "fails"

\* C3: the keys of the result are exactly the fields whose path matched at
\* least one node; a field whose path matched nothing has no key at all.
C3_KeysAreMatchedFields ==
    Extracted => DOMAIN outcome.value = { k \in Keys : TextsOf(k) # << >> }

\* C3 witness: a result with one field present and the other absent.
C3_Witness ==
    /\ Extracted
    /\ TextsOf("name") = << >>
    /\ TextsOf("response") # << >>
    /\ DOMAIN outcome.value = {"response"}

\* C4: in a result, a field whose path matched one node holds the coerced
\* text of that node as a scalar, and a field whose path matched N > 1 nodes
\* holds the list of the N coerced texts in document order.
C4_ScalarOrOrderedList ==
    Extracted =>
        \A k \in Keys :
            LET texts == TextsOf(k)
            IN  /\ Len(texts) = 1 =>
                      /\ k \in DOMAIN outcome.value
                      /\ SameValue(outcome.value[k], Expected(texts[1], CastOf(k)))
                /\ Len(texts) > 1 =>
                      /\ k \in DOMAIN outcome.value
                      /\ outcome.value[k].type = "list"
                      /\ Len(outcome.value[k].v) = Len(texts)
                      /\ \A i \in 1..Len(texts) :
                            SameValue(outcome.value[k].v[i], Expected(texts[i], CastOf(k)))

\* A second C4 case: a scalar integer under one key and a scalar datetime
\* under the other.
C4_ScalarCase ==
    /\ Extracted
    /\ CastOf("name") = "int" /\ TextsOf("name") = <<Text12>>
    /\ CastOf("response") = "datetime" /\ TextsOf("response") = <<TextStamp>>
    /\ outcome.value["name"].type = "int" /\ outcome.value["name"].v = 12
    /\ outcome.value["response"].type = "datetime"
    /\ outcome.value["response"].v = Stamp

\* C4 witness: a result with a list of two different booleans, in document
\* order, under one key.
C4_Witness ==
    /\ Extracted
    /\ CastOf("response") = "bool"
    /\ TextsOf("response") = <<TextNo, TextTrue>>
    /\ outcome.value["response"].type = "list"
    /\ outcome.value["response"].v = <<Bool(FALSE), Bool(TRUE)>>
    /\ "name" \notin DOMAIN outcome.value

\* C5: under the boolean cast no node text raises, empty text included: with
\* only the boolean cast in the map the call returns, each value true exactly
\* when the text is "true" in any letter case.
C5_BoolNeverFails ==
    op = "extract" /\ CastOf("response") = "bool" /\ CastOf("name") = "None" =>
        /\ outcome.kind = "return"
        /\ LET texts == TextsOf("response")
           IN  /\ Len(texts) = 1 =>
                     outcome.value["response"] = Bool(Lower(texts[1]) = <<"t", "r", "u", "e">>)
               /\ Len(texts) > 1 =>
                     \A i \in 1..Len(texts) :
                         outcome.value["response"].v[i]
                             = Bool(Lower(texts[i]) = <<"t", "r", "u", "e">>)

\* The part of C5 the code keeps: the boolean cast of a node that has text
\* never raises.
C5_BoolOfTextNeverFails ==
    /\ op = "extract" /\ CastOf("response") = "bool" /\ CastOf("name") = "None"
    /\ \A i \in 1..Len(TextsOf("response")) : TextsOf("response")[i] # None
    => outcome.kind = "return"

\* C6 as stated: a failed conversion ends the call with a CoercionError that
\* names the field and the raw text, and with no result.
C6_CoercionErrorNamesField ==
    op = "extract" /\ (\E k \in Keys : KeyFails(k)) =>
        /\ outcome.kind = "raise"
        /\ outcome.exc.type = "CoercionError"
        /\ \E k \in Keys : KeyFails(k) /\ \E i \in 1..Len(outcome.exc.args) :
                                             outcome.exc.args[i] = k

\* C6 amended: a failed conversion ends the call with the conversion's own
\* exception (ValueError, TypeError or AttributeError), which names no field,
\* and the caller gets no result; a call without a failed conversion returns.
C6_AllOrNothing ==
    op = "extract" =>
        IF \E k \in Keys : KeyFails(k)
        THEN /\ outcome.kind = "raise"
             /\ DOMAIN outcome = {"kind", "exc"}
             /\ outcome.exc.type \in {"ValueError", "TypeError", "AttributeError"}
             /\ Len(outcome.exc.args) = 2
             /\ \A k \in Keys : outcome.exc.args[1] # k
             /\ \E k \in Keys : \E i \in 1..Len(TextsOf(k)) :
                   /\ Expected(TextsOf(k)[i], CastOf(k)).type = "fails"
                   /\ outcome.exc.args[2] = Slice0(TextsOf(k)[i], Len(outcome.exc.args[2]))
        ELSE outcome.kind = "return"

\* C6 witness: the second field of the iteration fails after the first one
\* was converted, and the call raises.
C6_Witness ==
    /\ op = "extract"
    /\ input.keys = <<"response", "name">>
    /\ TextsOf("response") # << >> /\ ~KeyFails("response")
    /\ KeyFails("name")
    /\ outcome.kind = "raise"
    /\ outcome.exc.type = "ValueError"

----------------------------------------------------------------------------
(* Properties of send and of the envelope. *)

SendSteps == <<"wrap", "log", "serialize", "transport", "parse">>

IsPrefix(a, b) == Len(a) <= Len(b) /\ a = SubSeq(b, 1, Len(a))

Wrapped == op = "send" /\ Len(trace) >= 1

IsNamed(e, ns, tag) == e.ns = ns /\ e.tag = tag

ChildrenNamed(e, ns, tag) == SelectSeq(e.children, LAMBDA c : IsNamed(c, ns, tag))

\* C7: the steps of a send run in the order wrap, serialize, transport, parse;
\* the transport is called once per call, never again after a failure, with
\* the caller's headers, retries and timeout (4 and 30 when not given) and the
\* serialized envelope; what is parsed is the text that call returned.
C7_TransportOnce ==
    op = "send" =>
        /\ IsPrefix(trace, SendSteps)
        /\ Len(calls) = (IF Len(trace) >= 4 THEN 1 ELSE 0)
        /\ pc = "done" => Len(calls) = 1
        /\ Len(calls) >= 1 =>
              LET a == calls[1].args
                  g == input.given
              IN  /\ IF g.headers = << >> THEN a.headers = None ELSE a.headers = g.headers[1]
                  /\ a.retries = (IF g.retries = << >> THEN 4 ELSE g.retries[1])
                  /\ a.timeout = (IF g.timeout = << >> THEN 30 ELSE g.timeout[1])
                  /\ a.body.encoding = (IF g.encoding = << >> THEN "utf-8" ELSE g.encoding[1])
                  /\ a.body.data = Markup(request_xml)
                  /\ IsNamed(request_xml, SOAP_NS, "Envelope")
                  /\ request_xml.children[2].children = <<input.xml>>
                  \* read back where the envelope is the short one
                  /\ ~input.user_availability_req =>
                        XML(a.body) = [ok |-> TRUE, tree |-> request_xml]
        /\ Len(trace) = 5 =>
              /\ response = Truncated(Markup(calls[1].document), calls[1].cut)
              /\ outcome = _parse(response, input.encoding)

\* C7 witness: a send with no retries or timeout given that failed on a
\* truncated response, after one transport call with the default numbers.
C7_Witness ==
    /\ op = "send" /\ pc = "done"
    /\ input.given.retries = << >> /\ input.given.timeout = << >>
    /\ Len(calls) = 1 /\ calls[1].cut > 0
    /\ calls[1].args.retries = 4 /\ calls[1].args.timeout = 30
    /\ outcome.kind = "raise"
    /\ trace = SendSteps

\* C8: the envelope send builds has exactly a Header and then a Body, both in
\* the SOAP envelope namespace, the Body holding the caller's fragment; without
\* the availability flag the Header holds the version marker and nothing else.
C8_EnvelopeShape ==
    Wrapped =>
        /\ IsNamed(request_xml, SOAP_NS, "Envelope")
        /\ request_xml.text = None
        /\ Len(request_xml.children) = 2
        /\ IsNamed(request_xml.children[1], SOAP_NS, "Header")
        /\ IsNamed(request_xml.children[2], SOAP_NS, "Body")
        /\ request_xml.children[2].children = <<input.xml>>
        /\ request_xml.children[2].text = None
        /\ ~input.user_availability_req =>
              LET header == request_xml.children[1]
              IN  /\ Len(header.children) = 1
                  /\ header.text = None
                  /\ IsNamed(header.children[1], TYPE_NS, "RequestServerVersion")
                  /\ header.children[1].attrib = [Version |-> "Exchange2010"]
                  /\ header.children[1].children = << >>
                  /\ header.children[1].text = None

\* C8 witness: an envelope built without the availability flag around a
\* fragment that has a child of its own.
C8_Witness ==
    /\ Wrapped
    /\ ~input.user_availability_req
    /\ input.xml.tag = "FindItem"
    /\ Len(request_xml.children[1].children) = 1
    /\ request_xml.children[2].children[1].children # << >>

\* The TimeZoneDefinition of a header, << >> when it has none.
TimeZoneDefinitions(header) ==
    LET contexts == ChildrenNamed(header, TYPE_NS, "TimeZoneContext")
    IN  IF contexts = << >> THEN << >>
        ELSE ChildrenNamed(contexts[1], TYPE_NS, "TimeZoneDefinition")

\* C9: with the availability flag the Header holds the version marker and a
\* time zone definition with standard and daylight periods, two transitions
\* groups made of recurring rules (month, day of week, occurrence), and a
\* transition list whose entries lead to those groups.
C9_TwoTransitionsGroups ==
    Wrapped /\ input.user_availability_req =>
        LET header == request_xml.children[1]
            tzds   == TimeZoneDefinitions(header)
        IN  /\ ChildrenNamed(header, TYPE_NS, "RequestServerVersion") # << >>
            /\ Len(tzds) = 1
            /\ LET periods == ChildrenNamed(tzds[1], TYPE_NS, "Periods")[1].children
                   groups  == ChildrenNamed(tzds[1], TYPE_NS, "TransitionsGroups")[1].children
                   transitions == ChildrenNamed(tzds[1], TYPE_NS, "Transitions")[1].children
               IN  /\ \E i \in 1..Len(periods) : periods[i].attrib.Name = "Standard"
                   /\ \E i \in 1..Len(periods) : periods[i].attrib.Name = "Daylight"
                   /\ Len(groups) = 2
                   /\ \A i \in 1..Len(groups) :
                         /\ groups[i].children # << >>
                         /\ \A j \in 1..Len(groups[i].children) :
                               /\ groups[i].children[j].tag = "RecurringDayTransition"
                               /\ \A part \in {"Month", "DayOfWeek", "Occurrence"} :
                                     ChildrenNamed(groups[i].children[j], TYPE_NS, part) # << >>
                   /\ transitions # << >>
                   /\ \A i \in 1..Len(transitions) :
                         \E j \in 1..Len(groups) :
                             /\ transitions[i].children[1].attrib.Kind = "Group"
                             /\ transitions[i].children[1].text = <<groups[j].attrib.Id>>

\* The part of C9 the code keeps: the header with the flag is the version
\* marker and one time zone context, the same for every body fragment.
C9_FixedHeader ==
    Wrapped /\ input.user_availability_req =>
        /\ Len(request_xml.children[1].children) = 2
        /\ IsNamed(request_xml.children[1].children[1], TYPE_NS, "RequestServerVersion")
        /\ Len(TimeZoneDefinitions(request_xml.children[1])) = 1
        /\ request_xml.children[1] = user_availability_header

----------------------------------------------------------------------------
(* The kinds of error a caller sees. *)

\* Why a finished call must fail, judged from what it was given: "encoding",
\* "malformed", "fault" or "cast"; "none" when it need not.
ResponseCause(document, cut, encoding) ==
    IF ~CanEncode(Truncated(Markup(document), cut), encoding) THEN "encoding"
    ELSE IF cut > 0 THEN "malformed"
    ELSE IF SoapFaultTexts(document) # << >> THEN "fault"
    ELSE "none"

Cause ==
    IF op = "parse" THEN ResponseCause(input.document, input.cut, input.encoding)
    ELSE IF op = "send" /\ Len(trace) = 5
    THEN ResponseCause(calls[1].document, calls[1].cut, input.encoding)
    ELSE IF op = "extract" /\ (\E k \in Keys : KeyFails(k)) THEN "cast"
    ELSE "none"

\* The exception types the code uses for a malformed response and for a fault.
KindOfMalformed == UnableToParse("XMLSyntaxError").exc.type

KindOfFault == _check_for_SOAP_fault(S("Fault", NoAttrib, None, << >>)).exc.type

\* C10 as stated: a malformed response, a fault and a failed cast fail with
\* three error kinds no two of which are the same.
C10_KindsPairwiseDistinct ==
    /\ Cause = "malformed" => outcome.kind = "raise" /\ outcome.exc.type = KindOfMalformed
    /\ Cause = "fault" =>
          /\ outcome.kind = "raise"
          /\ outcome.exc.type = KindOfFault
          /\ outcome.exc.type # KindOfMalformed
    /\ Cause = "cast" =>
          /\ outcome.kind = "raise"
          /\ outcome.exc.type \notin {KindOfMalformed, KindOfFault}

\* C10 amended: a malformed response and a fault both fail with
\* FailedExchangeException, told apart by its arguments only (one formatted
\* message; the fault message and the fault text); a failed cast fails with
\* ValueError, TypeError or AttributeError.
C10_TwoKinds ==
    /\ Cause = "malformed" => IsMalformedError(outcome)
    /\ Cause = "fault" =>
          /\ outcome.kind = "raise"
          /\ outcome.exc.type = "FailedExchangeException"
          /\ outcome.exc.type = KindOfMalformed
          /\ Len(outcome.exc.args) = 2
          /\ outcome.exc.args[1] = "SOAP Fault from Exchange server"
    /\ Cause = "cast" =>
          /\ outcome.kind = "raise"
          /\ outcome.exc.type \in {"ValueError", "TypeError", "AttributeError"}

\* C10 witness: a send that failed on a fault in the response.
C10_Witness ==
    /\ op = "send" /\ pc = "done"
    /\ Cause = "fault"
    /\ outcome.kind = "raise"
    /\ outcome.exc.type = "FailedExchangeException"

============================================================================
